---- MODULE Spec2Model ----
(***************************************************************************)
(* A model of the bfi-rs interpreter (src/src/main.rs): the BFI struct,    *)
(* check_syntax, the six tape / port operations, the two bracket-jump      *)
(* resolvers and the fetch-dispatch loop of interpret.                     *)
(*                                                                         *)
(* The program text c is a sequence of one-character strings (1-based in   *)
(* TLA+, so the byte at cursor pc is c[pc + 1]).  The tape x is a function *)
(* on 0 .. TapeLen-1.  interpret is modelled at the granularity of its     *)
(* loop: st is the position inside interpret                               *)
(*    "new"      constructed, interpret not yet called                     *)
(*    "run"      at the loop head (line 168)                               *)
(*    "fwd"      at the head of the scan loop of start_jump (line 139)     *)
(*    "bwd"      at the head of the scan loop of end_jump (line 152)       *)
(*    "advance"  the dispatched operation returned Ok, before line 181     *)
(*    "halted"   interpret returned; result holds the returned value       *)
(*                                                                         *)
(* jfrom is a history variable that no action reads: the cursor at which   *)
(* the bracket of the latest jump was dispatched (-1 before the first).    *)
(***************************************************************************)
EXTENDS Integers, Sequences, FiniteSets, TLC

VARIABLES x, c, p, pc, l, st, result, reader, rpos, writer, wlimit, jfrom

vars == << x, c, p, pc, l, st, result, reader, rpos, writer, wlimit, jfrom >>

(***************************************************************************)
(* Bounds of the model.                                                    *)
(***************************************************************************)
\* Length of the tape.  The source allocates 32767 + 1 cells (line 46); the
\* model runs the same code on a short tape.
TapeLen == 3
\* Every program text of at most this many characters is run.
MaxProgLen == 2
\* A jump scan that leaves the text is followed this many positions beyond it.
ScanLimit == 3
\* The adder is run on second operands 0 .. MaxAddend (and on boundary bytes).
MaxAddend == 3

(***************************************************************************)
(* Program constants.                                                      *)
(***************************************************************************)
I8Max == 127
I8Min == -128
U8Max == 255

(***************************************************************************)
(* Encodings of the ports.                                                 *)
(***************************************************************************)
\* The item of the input at which the call of read fails with an io::Error.
IoFault == -1
\* The limit of a writer that never fails (Cursor<Vec<u8>>, line 323).
NoLimit == -1

Errors == { "Io", "MissingClosingBrackets", "MissingOpeningBrackets",
            "OutOfMemory", "ArithmeticOverflow" }

\* The characters of a program text that the model distinguishes: the eight
\* tokens and "_" (the filler of the tests, lines 372 and 385).
Tokens == { ">", "<", "+", "-", ".", ",", "[", "]" }

Chars == Tokens \cup { "_" }

(***************************************************************************)
(* Conversions and pure helpers.                                           *)
(***************************************************************************)
\* A cast to u8 that drops the sign instead of reinterpreting the bits.
AsU8_magnitude(v) == IF v < 0 THEN - v ELSE v

\* `v as u8` for an i8 v (line 124).
AsU8(v) == v % (U8Max + 1)

\* A cast to i8 that keeps the low seven bits only.
AsI8_low7(b) == b % (I8Max + 1)

\* `b as i8` for a u8 b (line 132).
AsI8(b) == ((b - I8Min) % (U8Max + 1)) + I8Min

\* `(i as usize) < n` for an isize i and a length n (lines 63-64, 168).  The
\* cast sends a negative i to a value of at least 2^63, above every length.
UsizeLess(i, n) == i >= 0 /\ i < n

\* self.c.get(pc..=pc): the character at the cursor, None outside the text.
None == "None"

current_c == IF UsizeLess(pc, Len(c)) THEN c[pc + 1] ELSE None

\* The counting loop of check_syntax (lines 70-76): the number of characters
\* ch among s[lo .. hi].  The loop's left-to-right sum is split in halves to
\* keep the evaluation shallow on long texts.
RECURSIVE CountLoop(_, _, _, _)
CountLoop(s, ch, lo, hi) ==
    IF lo > hi THEN 0
    ELSE IF lo = hi THEN (IF s[lo] = ch THEN 1 ELSE 0)
    ELSE LET mid == (lo + hi) \div 2
         IN  CountLoop(s, ch, lo, mid) + CountLoop(s, ch, mid + 1, hi)

\* check_syntax that also rejects a closing bracket with no bracket open.
check_syntax_nesting(s) ==
    LET ob == CountLoop(s, "[", 1, Len(s))
        cb == CountLoop(s, "]", 1, Len(s))
    IN  IF \E n \in 1 .. Len(s) :
               CountLoop(s, "]", 1, n) > CountLoop(s, "[", 1, n)
        THEN "MissingOpeningBrackets"
        ELSE IF ob > cb THEN "MissingClosingBrackets"
        ELSE "Ok"

check_syntax(s) ==
    LET ob == CountLoop(s, "[", 1, Len(s))
        cb == CountLoop(s, "]", 1, Len(s))
    IN  IF ob > cb THEN "MissingClosingBrackets"
        ELSE IF ob < cb THEN "MissingOpeningBrackets"
        ELSE "Ok"

(***************************************************************************)
(* The programs and the ports of the runs.                                 *)
(***************************************************************************)
Rep(ch, n) == [ i \in 1 .. n |-> ch ]

\* All texts of length 0 .. n over Chars.
TextsUpTo(n) == UNION { [ 1 .. k -> Chars ] : k \in 0 .. n }

\* The adder of test_interpret (lines 424-429), character for character.
AdderText ==
    << "\n", " ", " ", " ", " ", " ", " ", " ", " ", " ", " ", " ", " ", "#",
    "#", "#", " ", "S", "i", "m", "p", "l", "e", " ", "A", "d", "d", "e",
    "r", " ", "#", "#", "#", "\n", " ", " ", " ", " ", " ", " ", " ", " ",
    " ", " ", " ", " ", ",", ">", ",", "<", "\n", " ", " ", " ", " ", " ",
    " ", " ", " ", " ", " ", " ", " ", ">", "[", "-", "<", "+", ">", "]",
    "<", "\n", " ", " ", " ", " ", " ", " ", " ", " ", " ", " ", " ", " ",
    ".", "\n", " ", " ", " ", " ", " ", " ", " ", " " >>

\* The Hello World program of test_interpret (lines 437-442), character for
\* character.
HelloText ==
    << "\n", " ", " ", " ", " ", " ", " ", " ", " ", " ", " ", " ", " ", "H",
    "e", "l", "l", "o", " ", "W", "o", "r", "l", "d", " ", "p", "r", "o",
    "g", "r", "a", "m", "\n", " ", " ", " ", " ", " ", " ", " ", " ", " ",
    " ", " ", " ", ">", "+", "+", "+", "+", "+", "+", "+", "+", "+", "[",
    "<", "+", "+", "+", "+", "+", "+", "+", "+", ">", "-", "]", "<", ".",
    ">", "+", "+", "+", "+", "+", "+", "+", "[", "<", "+", "+", "+", "+",
    ">", "-", "]", "<", "+", ".", "+", "+", "+", "+", "+", "+", "+", ".",
    ".", "+", "+", "+", ".", "[", "-", "]", ">", "+", "+", "+", "+", "+",
    "+", "+", "+", "[", "<", "+", "+", "+", "+", ">", "-", "]", "\n", " ",
    " ", " ", " ", " ", " ", " ", " ", " ", " ", " ", " ", "<", ".", "#",
    ">", "+", "+", "+", "+", "+", "+", "+", "+", "+", "+", "+", "[", "<",
    "+", "+", "+", "+", "+", ">", "-", "]", "<", ".", ">", "+", "+", "+",
    "+", "+", "+", "+", "+", "[", "<", "+", "+", "+", ">", "-", "]", "<",
    ".", "+", "+", "+", ".", "-", "-", "-", "-", "-", "-", ".", "-", "-",
    "-", "-", "-", "-", "-", "-", ".", "[", "-", "]", ">", "+", "+", "+",
    "+", "+", "+", "+", "+", "[", "\n", " ", " ", " ", " ", " ", " ", " ",
    " ", " ", " ", " ", " ", "<", "+", "+", "+", "+", ">", "-", "]", "<",
    "+", ".", "[", "-", "]", "+", "+", "+", "+", "+", "+", "+", "+", "+",
    "+", ".", "\n", " ", " ", " ", " ", " ", " ", " ", " " >>

\* The adder without filler.
AdderBare == << ",", ">", ",", "<", ">", "[", "-", "<", "+", ">", "]", "<", "." >>

EchoText == << ",", "." >>

\* The nested text of test_start_jump and test_end_jump (lines 385, 411).
NestedText == << "[", "_", "[", "[", "_", "]", "[", "_", "]", "_", "]", "]" >>

\* Loops that end, with nested and sibling pairs in their bodies.
LoopTexts ==
    { << "+", "[", ">", "[", "]", "<", "-", "]" >>,
      << "+", "[", "-", "[", "[", "_", "]", "[", "_", "]", "_", "]", "]" >>,
      << "+", "[", ">", "[", "[", "_", "]", "[", "_", "]", "_", "]", "<", "-", "]" >>,
      << "+", "+", "[", ">", "+", "[", "-", "]", "+", "[", "-", "]", "<", "-", "]" >>,
      << "[", "]", "[", "]" >>,
      << "+", "[", "-", "]", "[", "]" >>,
      << "+", "[", "[", "-", "]", "]" >> }

SkipText == << "[", ">", "]" >>

ReadSkipText == << ",", "[", ">", "]" >>

Bytes == 0 .. U8Max

\* Boundary bytes: 0, 1, i8::MAX, i8::MIN as u8, u8::MAX (line 349) and 'A'.
EdgeBytes == { 0, 1, 2, 65, I8Max, I8Max + 1, U8Max - 1, U8Max }

\* A run: the text, the two ports and the value of cell 0 at the call of
\* interpret (0 after BFI::new).
Run(text, rd, wq) == [ c |-> text, reader |-> rd, wlimit |-> wq, x0 |-> 0 ]

\* A run set up as the jump tests set theirs up: bfi.x[0] = v after BFI::new
\* (lines 381, 407).
RunOn(text, v) == [ c |-> text, reader |-> << >>, wlimit |-> NoLimit, x0 |-> v ]

\* Loops whose cell is never 0 at the opening bracket, and a read at the end
\* of the input between two other tokens.
EndlessTexts == { << "+", "[", "]" >>, << "+", "[", "_", "]" >> }

PastEndText == << "+", ",", "+" >>

\* The one-loop texts of the jump tests (line 372) and of the spec.
PresetTexts ==
    { << "[", "_", "]" >>, << "[", "-", "]" >>, << "[", "+", "]" >>,
      << "[", "-", "[", "[", "_", "]", "[", "_", "]", "_", "]", "]" >>,
      << "[", "[", "-", "]", "]", "[", "]" >> }

Runs ==
    \* every short text, on an empty, a one-byte and a failing input port, with
    \* a writer that never fails or fails at once
    { Run(t, rd, wq) : t \in TextsUpTo(MaxProgLen),
                       rd \in { << >>, << 1 >>, << IoFault >> },
                       wq \in { NoLimit, 0 } }
    \cup
    \* the texts of test_check_syntax (lines 205, 208, 215)
    { Run(t, << >>, NoLimit) :
          t \in { << "[", "-", ">", "+", "<", "]" >>, << "+", "-", ">", "[" >>,
                  << "[", "]", "+", "-", "]" >> } }
    \cup
    \* pointer walks to both ends of the tape
    { Run(Rep(">", n), << >>, NoLimit) : n \in { TapeLen - 1, TapeLen } }
    \cup
    { Run(Rep(">", TapeLen - 1) \o Rep("<", TapeLen), << >>, NoLimit) }
    \cup
    \* a cell counted to both ends of i8
    { Run(Rep("+", n), << >>, NoLimit) : n \in { I8Max, I8Max + 1, I8Max + 2 } }
    \cup
    { Run(Rep("-", n), << >>, NoLimit) : n \in { -I8Min, 1 - I8Min, 2 - I8Min } }
    \cup
    { Run(Rep("-", -I8Min) \o Rep("+", I8Max - I8Min + 1), << >>, NoLimit) }
    \cup
    \* ,. on every byte, alone or followed by a second byte
    { Run(EchoText, rd, wq) :
          rd \in { << b >> : b \in Bytes } \cup { << b, 7 >> : b \in Bytes },
          wq \in { NoLimit, 1 } }
    \cup
    \* the adder
    { Run(t, << a, b >>, NoLimit) :
          t \in { AdderText, AdderBare },
          a \in EdgeBytes,
          b \in (0 .. MaxAddend) \cup { I8Max, I8Max + 1, U8Max } }
    \cup
    \* nested loops: the text of the jump tests, entered on a zero and on a
    \* nonzero cell, and loops that end
    { Run(t, << >>, NoLimit) :
          t \in { NestedText, << "+" >> \o NestedText } \cup LoopTexts }
    \cup
    { Run(t, << >>, NoLimit) : t \in EndlessTexts \cup { PastEndText } }
    \cup
    \* loops at the start of the text, entered on a cell set before the run
    { RunOn(t, v) : t \in PresetTexts \cup { NestedText },
                    v \in { 1, 2, I8Max, -1, I8Min } }
    \cup
    { RunOn(SkipText, v) : v \in I8Min .. I8Max }
    \cup
    \* Hello World, on an empty input and on an input it does not read
    { Run(HelloText, rd, NoLimit) : rd \in { << >>, << 7 >> } }
    \cup
    \* [>] entered on a zero cell and on every byte read into the cell
    { Run(SkipText, << >>, NoLimit) }
    \cup
    { Run(ReadSkipText, << b >>, NoLimit) : b \in Bytes }

(***************************************************************************)
(* BFI::new (lines 44-52), with the ports handed to interpret: reader is   *)
(* the content of the input port and rpos the number of its items already  *)
(* read (a Cursor, line 431); writer is the content of the output port.    *)
(* Cell 0 is 0, or the value a run of RunOn assigns to it before the call. *)
(***************************************************************************)
Init ==
    \E r \in Runs :
        /\ x = [ i \in 0 .. TapeLen - 1 |-> IF i = 0 THEN r.x0 ELSE 0 ]
        /\ c = r.c
        /\ p = 0
        /\ pc = 0
        /\ l = 0
        /\ st = "new"
        /\ result = "none"
        /\ reader = r.reader
        /\ rpos = 0
        /\ writer = << >>
        /\ wlimit = r.wlimit
        /\ jfrom = -1

(***************************************************************************)
(* interpret (lines 163-184): entry, loop head and the two ways out of a   *)
(* dispatch.                                                               *)
(***************************************************************************)
\* The loop head finds the character ch at the cursor (lines 168-169).
Fetch(ch) == st = "run" /\ UsizeLess(pc, Len(c)) /\ current_c = ch

\* interpret returns e: Ok(()) at line 183, or the Err(e) that the `?` of line
\* 164 or of a dispatch (lines 170-175) passes on.
Return(e) == st' = "halted" /\ result' = e

\* A dispatch that returned Ok: on to line 181.
Continue == st' = "advance" /\ result' = result

\* interpret without the `?` of line 164: the check's result is dropped.
interpret_enter_unchecked ==
    /\ st = "new"
    /\ st' = "run" /\ result' = result /\ pc' = 0
    /\ UNCHANGED << x, c, p, l, reader, rpos, writer, wlimit, jfrom >>

\* Lines 164-167: the syntax check, then the cursor is set to the start.
interpret_enter ==
    /\ st = "new"
    /\ IF check_syntax(c) # "Ok"
       THEN Return(check_syntax(c)) /\ pc' = pc
       ELSE st' = "run" /\ result' = result /\ pc' = 0
    /\ UNCHANGED << x, c, p, l, reader, rpos, writer, wlimit, jfrom >>

\* Line 181.
interpret_advance ==
    /\ st = "advance"
    /\ pc' = pc + 1
    /\ st' = "run"
    /\ UNCHANGED << x, c, p, l, result, reader, rpos, writer, wlimit, jfrom >>

\* Lines 168, 183: the loop condition fails and interpret returns Ok(()).
interpret_exit ==
    /\ st = "run"
    /\ ~ UsizeLess(pc, Len(c))
    /\ Return("Ok")
    /\ UNCHANGED << x, c, p, pc, l, reader, rpos, writer, wlimit, jfrom >>

\* Line 178: any other character.
interpret_skip ==
    /\ st = "run"
    /\ UsizeLess(pc, Len(c))
    /\ current_c \notin Tokens
    /\ Continue
    /\ UNCHANGED << x, c, p, pc, l, reader, rpos, writer, wlimit, jfrom >>

(***************************************************************************)
(* Tape and pointer operations (lines 87-121).                             *)
(***************************************************************************)
\* increment_pointer that clears the cell it moves to.
increment_pointer_clearing ==
    /\ Fetch(">")
    /\ IF p + 1 >= TapeLen
       THEN Return("OutOfMemory") /\ p' = p /\ x' = x
       ELSE p' = p + 1 /\ x' = [ x EXCEPT ![p + 1] = 0 ] /\ Continue
    /\ UNCHANGED << c, pc, l, reader, rpos, writer, wlimit, jfrom >>

\* increment_pointer with the bound test off by one.
increment_pointer_past_end ==
    /\ Fetch(">")
    /\ IF p + 1 > TapeLen
       THEN Return("OutOfMemory") /\ p' = p
       ELSE p' = p + 1 /\ Continue
    /\ UNCHANGED << x, c, pc, l, reader, rpos, writer, wlimit, jfrom >>

increment_pointer ==
    /\ Fetch(">")
    /\ IF p + 1 >= TapeLen
       THEN Return("OutOfMemory") /\ p' = p
       ELSE p' = p + 1 /\ Continue
    /\ UNCHANGED << x, c, pc, l, reader, rpos, writer, wlimit, jfrom >>

\* decrement_pointer whose failure is swallowed: the run goes on.
decrement_pointer_ignored ==
    /\ Fetch("<")
    /\ p' = (IF p <= 0 THEN p ELSE p - 1)
    /\ Continue
    /\ UNCHANGED << x, c, pc, l, reader, rpos, writer, wlimit, jfrom >>

decrement_pointer ==
    /\ Fetch("<")
    /\ IF p <= 0
       THEN Return("OutOfMemory") /\ p' = p
       ELSE p' = p - 1 /\ Continue
    /\ UNCHANGED << x, c, pc, l, reader, rpos, writer, wlimit, jfrom >>

\* increment_byte_at_pointer that wraps at i8::MAX instead of failing.
increment_byte_wrapping ==
    /\ Fetch("+")
    /\ x' = [ x EXCEPT ![p] = AsI8(x[p] + 1) ]
    /\ Continue
    /\ UNCHANGED << c, p, pc, l, reader, rpos, writer, wlimit, jfrom >>

increment_byte_at_pointer ==
    /\ Fetch("+")
    /\ IF x[p] = I8Max
       THEN Return("ArithmeticOverflow") /\ x' = x
       ELSE x' = [ x EXCEPT ![p] = x[p] + 1 ] /\ Continue
    /\ UNCHANGED << c, p, pc, l, reader, rpos, writer, wlimit, jfrom >>

\* decrement_byte_at_pointer with the `+= 1` of increment_byte_at_pointer.
decrement_byte_adding ==
    /\ Fetch("-")
    /\ IF x[p] = I8Min
       THEN Return("ArithmeticOverflow") /\ x' = x
       ELSE x' = [ x EXCEPT ![p] = AsI8(x[p] + 1) ] /\ Continue
    /\ UNCHANGED << c, p, pc, l, reader, rpos, writer, wlimit, jfrom >>

decrement_byte_at_pointer ==
    /\ Fetch("-")
    /\ IF x[p] = I8Min
       THEN Return("ArithmeticOverflow") /\ x' = x
       ELSE x' = [ x EXCEPT ![p] = x[p] - 1 ] /\ Continue
    /\ UNCHANGED << c, p, pc, l, reader, rpos, writer, wlimit, jfrom >>

(***************************************************************************)
(* The ports (lines 123-134).  The writer accepts wlimit bytes and then    *)
(* fails (NoLimit: never).  The reader yields its items in order; the      *)
(* item IoFault is a read call that fails; at the end of the input the     *)
(* read returns Ok(0) and leaves buf = [0] (line 130).                     *)
(***************************************************************************)
output ==
    /\ Fetch(".")
    /\ IF Len(writer) = wlimit
       THEN Return("Io") /\ writer' = writer
       ELSE writer' = Append(writer, AsU8(x[p])) /\ Continue
    /\ UNCHANGED << x, c, p, pc, l, reader, rpos, wlimit, jfrom >>

\* input that leaves the cell alone when the reader has no byte left.
input_keep_at_eof ==
    /\ Fetch(",")
    /\ IF rpos < Len(reader) /\ reader[rpos + 1] = IoFault
       THEN Return("Io") /\ x' = x /\ rpos' = rpos
       ELSE /\ x' = IF rpos < Len(reader)
                    THEN [ x EXCEPT ![p] = AsI8(reader[rpos + 1]) ]
                    ELSE x
            /\ rpos' = IF rpos < Len(reader) THEN rpos + 1 ELSE rpos
            /\ Continue
    /\ UNCHANGED << c, p, pc, l, reader, writer, wlimit, jfrom >>

input ==
    /\ Fetch(",")
    /\ IF rpos < Len(reader) /\ reader[rpos + 1] = IoFault
       THEN Return("Io") /\ x' = x /\ rpos' = rpos
       ELSE LET buf == IF rpos < Len(reader) THEN reader[rpos + 1] ELSE 0
            IN  /\ x' = [ x EXCEPT ![p] = AsI8(buf) ]
                /\ rpos' = IF rpos < Len(reader) THEN rpos + 1 ELSE rpos
                /\ Continue
    /\ UNCHANGED << c, p, pc, l, reader, writer, wlimit, jfrom >>

(***************************************************************************)
(* The jump resolvers (lines 136-161).  A scan that leaves the text is     *)
(* followed for ScanLimit positions and no further.                        *)
(***************************************************************************)
\* start_jump that takes a negative cell for zero.
start_jump_unless_positive ==
    /\ Fetch("[")
    /\ IF x[p] <= 0
       THEN pc' = pc + 1 /\ st' = "fwd" /\ result' = result
       ELSE pc' = pc /\ Continue
    /\ jfrom' = pc
    /\ UNCHANGED << x, c, p, l, reader, rpos, writer, wlimit >>

\* start_jump with the test of line 137 inverted.
start_jump_inverted ==
    /\ Fetch("[")
    /\ IF x[p] # 0
       THEN pc' = pc + 1 /\ st' = "fwd" /\ result' = result
       ELSE pc' = pc /\ Continue
    /\ jfrom' = pc
    /\ UNCHANGED << x, c, p, l, reader, rpos, writer, wlimit >>

\* Lines 137-138, and line 147 when the cell is not zero.
start_jump ==
    /\ Fetch("[")
    /\ IF x[p] = 0
       THEN pc' = pc + 1 /\ st' = "fwd" /\ result' = result
       ELSE pc' = pc /\ Continue
    /\ jfrom' = pc
    /\ UNCHANGED << x, c, p, l, reader, rpos, writer, wlimit >>

\* A forward scan that does not count the brackets it passes: it ends at the
\* first closing bracket.
start_jump_scan_flat ==
    /\ st = "fwd"
    /\ l > 0 \/ current_c # "]"
    /\ pc < Len(c) + ScanLimit
    /\ l' = l
    /\ pc' = pc + 1
    /\ UNCHANGED << x, c, p, st, result, reader, rpos, writer, wlimit, jfrom >>

\* Lines 139-146: one turn of the forward scan.
start_jump_scan ==
    /\ st = "fwd"
    /\ l > 0 \/ current_c # "]"
    /\ pc < Len(c) + ScanLimit
    /\ l' = CASE current_c = "[" -> l + 1
              [] current_c = "]" -> l - 1
              [] OTHER -> l
    /\ pc' = pc + 1
    /\ UNCHANGED << x, c, p, st, result, reader, rpos, writer, wlimit, jfrom >>

\* A forward scan that ends at any closing bracket, whatever the depth.
start_jump_return_any_close ==
    /\ st = "fwd"
    /\ current_c = "]"
    /\ Continue
    /\ UNCHANGED << x, c, p, pc, l, reader, rpos, writer, wlimit, jfrom >>

\* A forward scan that stops one past the closing bracket.
start_jump_return_past ==
    /\ st = "fwd"
    /\ ~ (l > 0 \/ current_c # "]")
    /\ pc' = pc + 1
    /\ Continue
    /\ UNCHANGED << x, c, p, l, reader, rpos, writer, wlimit, jfrom >>

\* Line 139 false: the scan ends and start_jump returns.
start_jump_return ==
    /\ st = "fwd"
    /\ ~ (l > 0 \/ current_c # "]")
    /\ Continue
    /\ UNCHANGED << x, c, p, pc, l, reader, rpos, writer, wlimit, jfrom >>

\* end_jump that goes back only when the cell is 0.
end_jump_if_zero ==
    /\ Fetch("]")
    /\ IF x[p] = 0
       THEN pc' = pc - 1 /\ st' = "bwd" /\ result' = result
       ELSE pc' = pc /\ Continue
    /\ jfrom' = pc
    /\ UNCHANGED << x, c, p, l, reader, rpos, writer, wlimit >>

\* Line 151.
end_jump ==
    /\ Fetch("]")
    /\ pc' = pc - 1
    /\ st' = "bwd"
    /\ jfrom' = pc
    /\ UNCHANGED << x, c, p, l, result, reader, rpos, writer, wlimit >>

\* A backward scan without line 157: the depth is never taken down.
end_jump_scan_no_decrement ==
    /\ st = "bwd"
    /\ l > 0 \/ current_c # "["
    /\ pc > - ScanLimit
    /\ l' = IF current_c = "]" THEN l + 1 ELSE l
    /\ pc' = pc - 1
    /\ UNCHANGED << x, c, p, st, result, reader, rpos, writer, wlimit, jfrom >>

\* A backward scan that stops at the first opening bracket, whatever the depth.
end_jump_scan_flat ==
    /\ st = "bwd"
    /\ current_c # "["
    /\ pc > - ScanLimit
    /\ l' = l
    /\ pc' = pc - 1
    /\ UNCHANGED << x, c, p, st, result, reader, rpos, writer, wlimit, jfrom >>

\* Lines 152-159: one turn of the backward scan.
end_jump_scan ==
    /\ st = "bwd"
    /\ l > 0 \/ current_c # "["
    /\ pc > - ScanLimit
    /\ l' = CASE current_c = "]" -> l + 1
              [] current_c = "[" -> l - 1
              [] OTHER -> l
    /\ pc' = pc - 1
    /\ UNCHANGED << x, c, p, st, result, reader, rpos, writer, wlimit, jfrom >>

\* end_jump without line 160: the cursor is left on the bracket found.
end_jump_return_on_bracket ==
    /\ st = "bwd"
    /\ ~ (l > 0 \/ current_c # "[")
    /\ Continue
    /\ UNCHANGED << x, c, p, pc, l, reader, rpos, writer, wlimit, jfrom >>

\* Line 152 false, line 160: the scan ends one before the bracket found.
end_jump_return ==
    /\ st = "bwd"
    /\ ~ (l > 0 \/ current_c # "[")
    /\ pc' = pc - 1
    /\ Continue
    /\ UNCHANGED << x, c, p, l, reader, rpos, writer, wlimit, jfrom >>

Next ==
    \/ interpret_enter
    \/ interpret_advance
    \/ interpret_exit
    \/ interpret_skip
    \/ increment_pointer
    \/ decrement_pointer
    \/ increment_byte_at_pointer
    \/ decrement_byte_at_pointer
    \/ output
    \/ input
    \/ start_jump
    \/ start_jump_scan
    \/ start_jump_return
    \/ end_jump
    \/ end_jump_scan
    \/ end_jump_return

Spec == Init /\ [][Next]_vars

\* interpret is sequential code: whenever a step is possible it is taken.
FairSpec == Spec /\ WF_vars(Next)

TypeOK ==
    /\ x \in [ 0 .. TapeLen - 1 -> Int ]
    /\ p \in Nat
    /\ pc \in Int
    /\ l \in Nat
    /\ st \in { "new", "run", "fwd", "bwd", "advance", "halted" }
    /\ result \in Errors \cup { "Ok", "none" }

(***************************************************************************)
(* Properties.                                                             *)
(***************************************************************************)
\* The brackets of the text, counted as sets of positions.
Opens == Cardinality({ i \in DOMAIN c : c[i] = "[" })

Closes == Cardinality({ i \in DOMAIN c : c[i] = "]" })

BracketErrors == { "MissingClosingBrackets", "MissingOpeningBrackets" }

\* The step is a dispatch of the token ch.
Dispatching(ch) == st = "run" /\ pc >= 0 /\ pc < Len(c) /\ c[pc + 1] = ch

\* The step ends the run with the error e.
HaltsWith(e) == st' = "halted" /\ result' = e

\* C1: the data pointer is always an index of the tape; `>` dispatched at the
\* last cell and `<` dispatched at cell 0 end the run with OutOfMemory and
\* leave the pointer where it was.
C1_PointerInRange ==
    /\ [](p >= 0 /\ p < TapeLen)
    /\ [][ /\ (Dispatching(">") /\ p = TapeLen - 1)
              => (HaltsWith("OutOfMemory") /\ p' = p)
           /\ (Dispatching("<") /\ p = 0)
              => (HaltsWith("OutOfMemory") /\ p' = p) ]_vars

C1_Witness ==
    /\ st = "halted" /\ result = "OutOfMemory"
    /\ p = TapeLen - 1 /\ current_c = ">"

\* C2: every cell is always an i8; `+` on a cell holding 127 and `-` on a
\* cell holding -128 end the run with ArithmeticOverflow and leave the cell
\* as it was; on a text of 128 `+` it is the 128th that fails.
C2_CellsNeverWrap ==
    /\ [](\A i \in DOMAIN x : x[i] >= -128 /\ x[i] <= 127)
    /\ [][ /\ (Dispatching("+") /\ x[p] = 127)
              => (HaltsWith("ArithmeticOverflow") /\ x' = x)
           /\ (Dispatching("-") /\ x[p] = -128)
              => (HaltsWith("ArithmeticOverflow") /\ x' = x) ]_vars
    /\ []((c = Rep("+", 128) /\ st = "halted")
              => (result = "ArithmeticOverflow" /\ pc = 127 /\ x[0] = 127))

C2_Witness ==
    /\ c = Rep("+", 128) /\ st = "halted"
    /\ result = "ArithmeticOverflow" /\ x[0] = 127

\* C3: the syntax check fails with MissingClosingBrackets exactly when the text
\* has more `[` than `]`, with MissingOpeningBrackets exactly when it has more
\* `]` than `[`, and passes every text with equal counts, whatever the order
\* of the brackets.
C3_SyntaxByCounts ==
    /\ check_syntax(c) = "MissingClosingBrackets" <=> Opens > Closes
    /\ check_syntax(c) = "MissingOpeningBrackets" <=> Opens < Closes
    /\ check_syntax(c) = "Ok" <=> Opens = Closes
    /\ st # "new" =>
          /\ (st = "halted" /\ result = "MissingClosingBrackets") <=> Opens > Closes
          /\ (st = "halted" /\ result = "MissingOpeningBrackets") <=> Opens < Closes

C3_Witness == c = << "]", "[" >> /\ st = "bwd" /\ result = "none"

\* C4: a text with unequal bracket counts is rejected before any token is
\* dispatched: the entry step ends the run with the bracket error and changes
\* neither tape, pointer, cursor, output nor input position, and the run is
\* never at the loop.
C4_CheckBeforeDispatch ==
    /\ [][ (st = "new" /\ Opens # Closes)
              => /\ st' = "halted" /\ result' \in BracketErrors
                 /\ UNCHANGED << x, p, pc, l, writer, rpos >> ]_vars
    /\ [](Opens # Closes => st \in { "new", "halted" })
    /\ []((Opens # Closes /\ st = "halted") => ~ ENABLED Next)

C4_Witness ==
    /\ c = << "+", "]" >> /\ st = "halted"
    /\ result = "MissingOpeningBrackets" /\ x[0] = 0 /\ pc = 0

\* The error the token at the cursor fails with in the current state, "none"
\* when it succeeds.
FailureAtCursor ==
    CASE Dispatching(">") /\ p = TapeLen - 1 -> "OutOfMemory"
      [] Dispatching("<") /\ p = 0 -> "OutOfMemory"
      [] Dispatching("+") /\ x[p] = 127 -> "ArithmeticOverflow"
      [] Dispatching("-") /\ x[p] = -128 -> "ArithmeticOverflow"
      [] Dispatching(".") /\ Len(writer) = wlimit -> "Io"
      [] Dispatching(",") /\ rpos < Len(reader) /\ reader[rpos + 1] = IoFault -> "Io"
      [] OTHER -> "none"

\* C5: the first failing token ends the run with its error as the final result
\* and changes neither tape, pointer nor output (what earlier steps wrote
\* stays); a token that does not fail does not end the run; once the run has
\* ended no step is taken and the result never changes.
C5_FailFast ==
    /\ [][ (st = "run" /\ pc >= 0 /\ pc < Len(c))
              => IF FailureAtCursor # "none"
                 THEN /\ HaltsWith(FailureAtCursor)
                      /\ UNCHANGED << x, p, pc, l, writer, rpos >>
                 ELSE st' # "halted" ]_vars
    /\ [][ result # "none" => result' = result ]_vars
    /\ [](st = "halted" => ~ ENABLED Next)

C5_Witness ==
    /\ c = << "+", "<" >> /\ st = "halted"
    /\ result = "OutOfMemory" /\ x[0] = 1 /\ pc = 1

\* C6: the run has a result exactly when it has ended, the result is Ok or one
\* error, and Ok is returned only with the cursor equal to the text's length.
C6_TerminalResult ==
    /\ st = "halted" <=> result # "none"
    /\ result \in Errors \cup { "Ok", "none" }
    /\ result = "Ok" => pc = Len(c)

C6_Witness ==
    /\ c = << "[", "]" >> /\ st = "halted" /\ result = "Ok" /\ pc = 2

\* The unsigned byte with the bits of the i8 v.
Unsigned(v) == IF v >= 0 THEN v ELSE v + 256

\* The i8 with the bits of the byte b.
Signed(b) == IF b <= 127 THEN b ELSE b - 256

\* C7: a `.` that succeeds appends to the output the one byte Unsigned(cell) and
\* changes nothing else; the output changes in no other step.
C7_OutputByte ==
    /\ [][ (Dispatching(".") /\ st' = "advance")
              => /\ writer' = Append(writer, Unsigned(x[p]))
                 /\ UNCHANGED << x, c, p, pc, l, reader, rpos >> ]_vars
    /\ [][ writer' # writer => (Dispatching(".") /\ st' = "advance") ]_vars

C7_Witness ==
    /\ c = << "-", "." >> /\ writer = << 255 >> /\ x[0] = -1 /\ st = "advance"

\* C8: `,.` on an input whose first byte is b reads that one byte, holds
\* Signed(b) in the current cell from then on and ends with Ok and the output
\* << b >>.
C8_EchoRoundTrip ==
    (c = EchoText /\ Len(reader) >= 1 /\ reader[1] \in 0 .. 255 /\ wlimit # 0)
        => /\ rpos <= 1
           /\ rpos = 1 => x[0] = Signed(reader[1])
           /\ rpos = 0 => st \in { "new", "run" }
           /\ writer \in { << >>, << reader[1] >> }
           /\ st = "halted" =>
                 /\ result = "Ok" /\ rpos = 1 /\ writer = << reader[1] >>

C8_Witness ==
    /\ c = EchoText /\ reader = << 200, 7 >> /\ st = "halted"
    /\ result = "Ok" /\ rpos = 1 /\ writer = << 200 >> /\ x[0] = -56

\* The adder is run on two bytes a, b with b an i8 >= 0 and Signed(a) + b an i8,
\* on ports that do not fail.
AdderRun ==
    /\ c \in { AdderText, AdderBare }
    /\ Len(reader) = 2 /\ wlimit = NoLimit
    /\ reader[1] \in 0 .. 255 /\ reader[2] \in 0 .. 127
    /\ Signed(reader[1]) + reader[2] <= 127

\* C9, as stated: the adder ends with Ok, the cursor at the end of the text and
\* the single output byte a + b.
C9_AdderSum_AsStated ==
    (AdderRun /\ st = "halted")
        => /\ result = "Ok" /\ pc = Len(c)
           /\ writer = << reader[1] + reader[2] >>

\* C9, amended: the adder, with or without filler, always ends, with Ok, the
\* cursor at the end of the text and the single output byte (a + b) mod 256,
\* the unsigned byte of Signed(a) + b.
C9_AdderSum ==
    [](AdderRun
          => <>(/\ AdderRun
                /\ st = "halted" /\ result = "Ok" /\ pc = Len(c)
                /\ writer = << (reader[1] + reader[2]) % 256 >>))

C9_Witness ==
    /\ c = AdderText /\ reader = << 1, 2 >> /\ st = "halted"
    /\ result = "Ok" /\ writer = << 3 >> /\ pc = Len(c)

\* C10: when [>] is entered on a nonzero cell with every other cell zero (the
\* cell is set before the run, or read by a leading `,`), the run ends with Ok
\* and the pointer at 1, and the pointer is never moved further.
C10_LoopBodyOnce ==
    /\ []((/\ \/ c = SkipText /\ pc = 0
              \/ c = ReadSkipText /\ pc = 1
           /\ st = "run" /\ p = 0 /\ x[0] # 0
           /\ \A i \in 1 .. TapeLen - 1 : x[i] = 0)
             => <>(st = "halted" /\ result = "Ok" /\ p = 1))
    /\ [](c \in { SkipText, ReadSkipText } => p <= 1)

C10_Witness ==
    /\ c = ReadSkipText /\ reader = << 200 >> /\ st = "halted"
    /\ result = "Ok" /\ p = 1 /\ x[0] = -56 /\ pc = 4

\* The bytes of "Hello World!\n" (line 447).
HelloBytes == << 72, 101, 108, 108, 111, 32, 87, 111, 114, 108, 100, 33, 10 >>

\* C11: the Hello World program, started on the tape of all zeros with a writer
\* that does not fail, always ends with Ok, the output "Hello World!\n", no
\* input read and the cursor at the end of the text.
C11_HelloWorld ==
    /\ []((c = HelloText /\ wlimit = NoLimit)
             => <>(/\ st = "halted" /\ result = "Ok" /\ pc = Len(c)
                   /\ writer = HelloBytes /\ rpos = 0))
    /\ [](c = HelloText => rpos = 0)

C11_Witness ==
    /\ c = HelloText /\ reader = << 7 >> /\ st = "halted" /\ result = "Ok"
    /\ writer = HelloBytes /\ Len(writer) = 13 /\ rpos = 0 /\ pc = Len(c)

(***************************************************************************)
(* The structure of the brackets of a text, by nesting depth.  Positions   *)
(* are cursor values: position k is c[k + 1].                              *)
(***************************************************************************)
\* The depths after each of the positions lo-1 .. hi-1, in order, when the
\* depth before position lo-1 is base (lo <= hi; the range is split in halves).
RECURSIVE DepthsOf(_, _, _)
DepthsOf(lo, hi, base) ==
    IF lo = hi
    THEN << base + (IF c[lo] = "[" THEN 1 ELSE IF c[lo] = "]" THEN -1 ELSE 0) >>
    ELSE LET mid == (lo + hi) \div 2
             left == DepthsOf(lo, mid, base)
         IN  left \o DepthsOf(mid + 1, hi, left[Len(left)])

\* Depths[k + 1] is the depth before position k: the number of `[` less the
\* number of `]` among positions 0 .. k-1.
Depths == IF Len(c) = 0 THEN << 0 >> ELSE << 0 >> \o DepthsOf(1, Len(c), 0)

\* No prefix of the text closes more brackets than it opens, and the text
\* closes all it opens.
WellNested ==
    LET D == Depths
    IN  /\ \A k \in 1 .. Len(D) : D[k] >= 0
        /\ D[Len(D)] = 0

\* The closing bracket of the `[` at position i: the first position after i
\* at whose end the depth is back to the depth before i.
MatchClose(i) ==
    LET D == Depths
        S == { j \in i + 1 .. Len(c) - 1 : D[j + 2] = D[i + 1] }
    IN  CHOOSE j \in S : \A k \in S : j <= k

\* The opening bracket of the `]` at position j: the last position before j
\* before which the depth is the depth after j.
MatchOpen(j) ==
    LET D == Depths
        S == { i \in 0 .. j - 1 : D[i + 1] = D[j + 2] }
    IN  CHOOSE i \in S : \A k \in S : k <= i

\* C12: in a well-nested text, `[` dispatched on a nonzero cell leaves the
\* cursor on it; dispatched on a zero cell it starts a scan at the next
\* position with depth 0, the scan dispatches nothing, stays between the `[`
\* and its closing bracket, cannot go on at the closing bracket (so `[]` takes
\* no scan step) and returns only there; the step after either return is the
\* loop's increment, so the next token dispatched is the one after.
C12_ForwardJump ==
    /\ [][ (Dispatching("[") /\ WellNested)
              => IF x[p] # 0
                 THEN st' = "advance" /\ pc' = pc /\ l' = l
                 ELSE st' = "fwd" /\ pc' = pc + 1 /\ l' = 0 ]_vars
    /\ []((st = "fwd" /\ WellNested)
             => /\ c[jfrom + 1] = "[" /\ x[p] = 0
                /\ jfrom < pc /\ pc <= MatchClose(jfrom)
                /\ pc = MatchClose(jfrom) <=> ~ ENABLED start_jump_scan)
    /\ [][ (st = "fwd" /\ st' # "fwd" /\ WellNested)
              => /\ st' = "advance" /\ pc' = pc /\ pc = MatchClose(jfrom)
                 /\ c[pc + 1] = "]" /\ l' = 0 ]_vars
    /\ [][ st = "advance" => (st' = "run" /\ pc' = pc + 1) ]_vars

C12_Witness ==
    /\ c = << "+", "[", ">", "[", "[", "_", "]", "[", "_", "]", "_", "]", "<", "-", "]" >>
    /\ st = "advance" /\ jfrom = 3 /\ pc = 11 /\ x[p] = 0 /\ l = 0

\* C13: `]` is dispatched the same way whatever the cell holds: a scan starts
\* one position back.  In a well-nested text the scan stays between the opening
\* bracket of the `]` and the `]`, cannot go on at the opening bracket and
\* returns only there, with the cursor one before it (-1 for an opening bracket
\* at position 0); the next step is the loop's increment, which puts the cursor
\* on that `[`.
C13_BackwardJump ==
    /\ [][ Dispatching("]")
              => (st' = "bwd" /\ pc' = pc - 1 /\ UNCHANGED << x, p, l >>) ]_vars
    /\ []((st = "bwd" /\ WellNested)
             => /\ c[jfrom + 1] = "]"
                /\ MatchOpen(jfrom) <= pc /\ pc < jfrom
                /\ pc = MatchOpen(jfrom) <=> ~ ENABLED end_jump_scan)
    /\ [][ (st = "bwd" /\ st' # "bwd" /\ WellNested)
              => /\ st' = "advance" /\ pc = MatchOpen(jfrom)
                 /\ pc' = MatchOpen(jfrom) - 1 /\ l' = 0 ]_vars
    /\ [][ (st = "advance" /\ jfrom >= 0 /\ c[jfrom + 1] = "]" /\ WellNested)
              => /\ st' = "run" /\ pc' = MatchOpen(jfrom)
                 /\ c[pc' + 1] = "[" ]_vars

\* The sentinel: a backward jump to position 0, here on a cell that is zero.
C13_Witness ==
    /\ c = << "[", "-", "]" >> /\ st = "advance" /\ jfrom = 2
    /\ pc = -1 /\ x[p] = 0 /\ l = 0

\* C14: in a run of a text with equal bracket counts the cursor is always in
\* -1 .. Len(c), a token is dispatched only inside the text, and outside a
\* backward scan the cursor is -1 only on the return of a backward jump to an
\* opening bracket at position 0.
C14_CursorInBounds ==
    check_syntax(c) = "Ok"
        => /\ pc >= -1 /\ pc <= Len(c)
           /\ st \in { "fwd", "advance" } => (pc >= 0 /\ pc < Len(c)) \/ pc = -1
           /\ (pc = -1 /\ st # "bwd")
                 => (st = "advance" /\ jfrom >= 0 /\ c[jfrom + 1] = "]" /\ c[1] = "[")

\* C15: the depth counter is never negative, and it is 0 outside the two scans:
\* at every dispatch, after every return of a jump and at the end of the run.
C15_DepthReset ==
    /\ l >= 0
    /\ st \in { "new", "run", "advance", "halted" } => l = 0
    /\ (st \in { "fwd", "bwd" } /\ l > 0) => jfrom >= 0

C15_Witness ==
    /\ c = << "+", "[", ">", "[", "[", "_", "]", "[", "_", "]", "_", "]", "<", "-", "]" >>
    /\ st = "advance" /\ jfrom = 14 /\ pc = 0 /\ l = 0

\* C16: a step changes the tape only by dispatching `+`, `-` or `,`, and then
\* only at the data pointer; the dispatch of a bracket and every step of a
\* scan change neither tape, pointer, input position nor output; a character
\* that is no token changes nothing, and the loop's increment only the cursor.
C16_TapeFrame ==
    /\ [][ x' # x
              => /\ Dispatching("+") \/ Dispatching("-") \/ Dispatching(",")
                 /\ \A i \in DOMAIN x : i # p => x'[i] = x[i] ]_vars
    /\ [][ (Dispatching("[") \/ Dispatching("]") \/ st \in { "fwd", "bwd" })
              => UNCHANGED << x, c, p, reader, rpos, writer, wlimit, result >> ]_vars
    /\ [][ (st = "run" /\ pc >= 0 /\ pc < Len(c) /\ c[pc + 1] \notin Tokens)
              => /\ st' = "advance"
                 /\ UNCHANGED << x, c, p, pc, l, reader, rpos, writer, result >> ]_vars
    /\ [][ st = "advance"
              => /\ pc' = pc + 1
                 /\ UNCHANGED << x, c, p, l, reader, rpos, writer, result >> ]_vars

C16_Witness ==
    /\ c = AdderBare /\ reader = << 1, 2 >> /\ st = "bwd"
    /\ x[0] = 2 /\ x[1] = 1 /\ p = 1 /\ writer = << >> /\ rpos = 2

\* C17: the run of `+[]` (and of `+[_]`) never halts and never has a result;
\* once `+` has run the tape holds 1 in cell 0 and nothing else, the pointer
\* is 0, tokens are dispatched only at the two brackets, and each bracket is
\* dispatched again and again.
C17_EndlessLoop ==
    /\ [](c \in EndlessTexts => st # "halted" /\ result = "none")
    /\ []((c \in EndlessTexts /\ (pc # 0 \/ st = "advance" \/ jfrom >= 0))
             => /\ x = [ i \in 0 .. TapeLen - 1 |-> IF i = 0 THEN 1 ELSE 0 ]
                /\ p = 0
                /\ pc >= 0 /\ pc < Len(c)
                /\ (st = "run" /\ c[pc + 1] \in Tokens) => c[pc + 1] \in { "[", "]" })
    /\ (c \in EndlessTexts) ~> (c \in EndlessTexts /\ Dispatching("["))
    /\ (c \in EndlessTexts) ~> (c \in EndlessTexts /\ Dispatching("]"))

C17_Witness ==
    /\ c = << "+", "[", "]" >> /\ st = "advance" /\ jfrom = 2 /\ pc = 0
    /\ x[0] = 1 /\ result = "none"

\* C18: a `,` dispatched when the reader has no byte left sets the cell at the
\* pointer to 0 whatever it held, consumes nothing, raises no error, and the
\* run goes on with the next character.
C18_ReadAtEnd ==
    /\ [][ (Dispatching(",") /\ rpos >= Len(reader))
              => /\ x' = [ x EXCEPT ![p] = 0 ]
                 /\ st' = "advance" /\ result' = "none"
                 /\ UNCHANGED << p, pc, l, rpos, writer >> ]_vars
    /\ []((c = PastEndText /\ reader = << >> /\ st = "halted")
             => result = "Ok" /\ x[0] = 1 /\ pc = Len(c))

C18_Witness ==
    /\ c = PastEndText /\ reader = << >> /\ st = "halted" /\ result = "Ok"
    /\ x[0] = 1 /\ rpos = 0

\* C19 as stated: in a well-nested text the character after a loop is
\* dispatched right after that loop only on a zero cell, and the first
\* character of a loop's body is dispatched only on a nonzero cell.
C19_LoopExit_AsStated ==
    /\ (/\ WellNested /\ st = "run" /\ pc < Len(c)
        /\ jfrom >= 0 /\ c[jfrom + 1] = "[" /\ pc = MatchClose(jfrom) + 1)
          => x[p] = 0
    /\ (/\ WellNested /\ st = "run" /\ pc >= 1 /\ pc < Len(c) /\ c[pc] = "[")
          => x[p] # 0

\* C19: in a well-nested text the character after a loop is dispatched right
\* after that loop only on a zero cell, and the first character of a loop's
\* body is dispatched only on a nonzero cell, unless it is itself an opening
\* bracket reached by the backward jump of its own loop.
C19_LoopExit ==
    /\ (/\ WellNested /\ st = "run" /\ pc < Len(c)
        /\ jfrom >= 0 /\ c[jfrom + 1] = "[" /\ pc = MatchClose(jfrom) + 1)
          => x[p] = 0
    /\ (/\ WellNested /\ st = "run" /\ pc >= 1 /\ pc < Len(c) /\ c[pc] = "["
        /\ ~ (/\ c[pc + 1] = "[" /\ jfrom >= 0 /\ c[jfrom + 1] = "]"
              /\ pc = MatchOpen(jfrom)))
          => x[p] # 0

C19_Witness ==
    /\ c = << "+", "[", "-", "]", "[", "]" >> /\ st = "run" /\ pc = 4
    /\ jfrom = 1 /\ x[p] = 0

\* C20: in a well-nested text the cursor is always in -1 .. Len(c), every
\* scan ends, and it ends by returning with the cursor in -1 .. Len(c) - 1.
C20_ScansEnd ==
    /\ []((pc < -1 \/ pc > Len(c) \/ (st \in { "fwd", "bwd" } /\ ~ ENABLED Next))
             => ~ WellNested)
    /\ [][ (st \in { "fwd", "bwd" } /\ st' \notin { "fwd", "bwd" } /\ WellNested)
              => st' = "advance" /\ pc' >= -1 /\ pc' <= Len(c) - 1 ]_vars
    /\ (st \in { "fwd", "bwd" } /\ WellNested) ~> (st = "advance")

C20_Witness ==
    /\ c = NestedText /\ st = "advance" /\ jfrom = 0 /\ pc = Len(c) - 1
    /\ x[p] = 0 /\ l = 0

====
